---- MODULE Spec2Model ----
(***************************************************************************)
(* Streaming response transcoder of the Claude proxy                       *)
(* (ClaudeProxy.handle_stream_response and the exception handler of        *)
(* ClaudeProxy.handle_messages around it).                                  *)
(*                                                                         *)
(* The backend body is a sequence of tokens.  A token is one indivisible   *)
(* piece of text: the "data:" prefix, a blank, a line terminator, a        *)
(* comment text, the [DONE] sentinel, the text of one JSON object, or a    *)
(* text that is not JSON.  The transport delivers the body in chunks cut   *)
(* at arbitrary token boundaries, so a chunk boundary can fall between the *)
(* prefix and the payload of a line (a line split in two), just before a   *)
(* line terminator, or after it.                                           *)
(***************************************************************************)
EXTENDS Integers, Sequences, FiniteSets, TLC

\* ---------------------------------------------------------------- bounds
\* Largest number of lines of a backend body of Spec.
MaxLines == 3
\* Largest number of lines of a backend body of SpecReasons.
MaxReasonLines == 2
\* Largest number of lines of a backend body of SpecMalformed.
MaxMalformedLines == 3
\* Lines of each backend body when two exchanges run concurrently.
MaxTwoLines == 1
\* Milliseconds the clock may advance during the two exchanges.
MaxClock == 1
\* Lines of a backend body that mixes data: lines with other lines.
MaxNonDataLines == 2
\* Lines of a backend body whose payloads may carry a fragment and a finish
\* reason together.
MaxBothLines == 2

\* ---------------------------------------------------------------- tokens
\* Python's None: an absent JSON field.
None == "None"

Tok(t, c, f) == [t |-> t, content |-> c, finish |-> f]

\* The five characters "data:" (line 233).
Prefix == Tok("data:", None, None)
\* One blank character.
Space == Tok("sp", None, None)
\* A line terminator.
NL == Tok("nl", None, None)
\* A text that does not begin with "data:" (an SSE comment).
Comment == Tok(":comment", None, None)
\* The five characters "DATA:": the prefix in another case.
UpperPrefix == Tok("DATA:", None, None)
\* A server-sent event field other than data ("event: message").
EventField == Tok("event:", None, None)
\* The termination sentinel (line 236).
DoneTok == Tok("[DONE]", None, None)
\* A text that json.loads rejects.
Garbage == Tok("garbage", None, None)
\* The text of the object {"choices":[{"delta":{"content":c},"finish_reason":f}]};
\* c or f = None when the field is absent (or null).
Json(c, f) == Tok("json", c, f)
\* The text of a JSON value that is not an object: 1, null, [].
JsonValue == Tok("json_value", None, None)
\* The text of the object {"choices": []}.
NoChoices == Tok("json_nochoices", None, None)

\* ---------------------------------------------------------------- events
Ev(type, data) == [type |-> type, data |-> data]

\* Every write has the shape f"event: {type}\ndata: {text}\n\n".  The text
\* after "data: " is the output of json.dumps (lines 192, 213, 220, 248,
\* 260, 261), except for ping, where it is the bare word ping (line 221),
\* and message_stop, where it is the two characters {} (line 262).
frame_data(ev) ==
    CASE ev.type = "ping" -> "ping"
      [] ev.type = "message_stop" -> "{}"
      [] OTHER -> "json.dumps"

\* ---------------------------------------------------------------- helpers
RECURSIVE Flatten(_)
Flatten(ss) == IF ss = <<>> THEN <<>> ELSE Head(ss) \o Flatten(Tail(ss))

\* Mutant: an "is not None" test, under which "" passes.
Truthy_NotNone(v) == v # None

\* Python truthiness of an optional string: None and "" are falsy.
Truthy(v) == v # None /\ v # ""

\* str.splitlines() on a chunk of tokens: a terminator ends a line, and
\* a non-empty rest after the last terminator is a line too.
RECURSIVE SplitAcc(_, _, _)
SplitAcc(s, cur, acc) ==
    IF s = <<>> THEN (IF cur = <<>> THEN acc ELSE Append(acc, cur))
    ELSE IF Head(s) = NL THEN SplitAcc(Tail(s), <<>>, Append(acc, cur))
    ELSE SplitAcc(Tail(s), Append(cur, Head(s)), acc)

splitlines(text) == SplitAcc(text, <<>>, <<>>)

\* raw.startswith("data:")
startswith_data(raw) == raw # <<>> /\ Head(raw) = Prefix

\* str.strip(): leading and trailing blanks removed.
RECURSIVE lstrip(_)
lstrip(s) == IF s # <<>> /\ Head(s) = Space THEN lstrip(Tail(s)) ELSE s

RECURSIVE rstrip(_)
rstrip(s) ==
    IF s # <<>> /\ s[Len(s)] = Space THEN rstrip(SubSeq(s, 1, Len(s) - 1)) ELSE s

strip(s) == rstrip(lstrip(s))

\* json.loads(payload) succeeds: the payload is the text of one JSON value.
json_loads_ok(payload) ==
    /\ Len(payload) = 1
    /\ payload[1].t \in {"json", "json_value", "json_nochoices"}

\* data.get("choices", [{}])[0] of line 243 evaluates: data is an object
\* (it has a get method) and its choices list has a first element.
first_choice_ok(data) == data.t = "json"

\* ------------------------------------------------------- reason-code table
\* The dict literal of line 252.
StopTable ==
    [f \in {"length", "tool_calls", "function_call", "stop"} |->
        CASE f = "length" -> "max_tokens"
          [] f = "tool_calls" -> "tool_use"
          [] f = "function_call" -> "tool_use"
          [] f = "stop" -> "end_turn"]

\* Mutant: the rule of the non-streaming path (line 283), under which
\* every reason but "stop" gives max_tokens.
stop_reason_StopOrMax(finish) ==
    IF finish = "stop" THEN "end_turn" ELSE "max_tokens"

\* {...}.get(finish, "end_turn") of line 252.
stop_reason(finish) ==
    IF finish \in DOMAIN StopTable THEN StopTable[finish] ELSE "end_turn"

\* The stop_reason of the non-streaming path, line 283 of
\* openai_to_claude_response: "end_turn" if choice.get("finish_reason") ==
\* "stop" else "max_tokens"; an absent finish_reason is None.
normal_stop_reason(finish) ==
    IF finish = "stop" THEN "end_turn" ELSE "max_tokens"

\* ------------------------------------------------------------ the sink
\* A handler step runs with a budget: the number of sink operations
\* (response.write, drain, write_eof) that succeed before the client
\* connection breaks; the operation after the budget raises.
\* st = [evs, budget, raised, cause, final_stop, done, seen]; cause names
\* the exception when raised is TRUE.
write(st, ev) ==
    IF st.budget = 0 THEN [st EXCEPT !.raised = TRUE, !.cause = "sink"]
    ELSE [st EXCEPT !.evs = Append(@, ev), !.budget = @ - 1]

\* drain() and write_eof(): a sink operation that writes no event.
flush(st) ==
    IF st.raised THEN st
    ELSE IF st.budget = 0 THEN [st EXCEPT !.raised = TRUE, !.cause = "sink"]
    ELSE [st EXCEPT !.budget = @ - 1]

RECURSIVE write_all(_, _)
write_all(st, evs) ==
    IF evs = <<>> \/ st.raised THEN st
    ELSE write_all(write(st, Head(evs)), Tail(evs))

\* ----------------------------------------------------- one logical line
\* Mutant: the event is built from a field the delta does not have.
delta_event_NoText(content) == Ev("content_block_delta", None)

\* The content_block_delta event of line 246.
delta_event(content) == Ev("content_block_delta", content)

\* Mutant: a payload that json.loads rejects ends the stream.
on_bad_json_Break(st) == [st EXCEPT !.done = TRUE]

\* except: continue of lines 241-242.
on_bad_json(st) == st

\* Line 243 raises AttributeError (data has no get) or IndexError (the
\* choices list is empty); nothing in the handler catches it.
raise_payload(st) == [st EXCEPT !.raised = TRUE, !.cause = "payload"]

\* Mutant: the finish reason is looked at before the fragment, and a
\* finishing payload leaves the loop without its fragment being written.
process_line_FinishFirst(raw, st0) ==
    LET st == [st0 EXCEPT !.seen = Append(@, raw)] IN
    IF ~startswith_data(raw) THEN st
    ELSE
      LET payload == strip(Tail(raw)) IN
      IF payload = <<DoneTok>> THEN [st EXCEPT !.done = TRUE]
      ELSE IF ~json_loads_ok(payload) THEN on_bad_json(st)
      ELSE IF ~first_choice_ok(payload[1]) THEN raise_payload(st)
      ELSE
        LET ch == payload[1] IN
        IF Truthy(ch.finish)
        THEN [st EXCEPT !.final_stop = stop_reason(ch.finish), !.done = TRUE]
        ELSE IF Truthy(ch.content) THEN write(st, delta_event(ch.content))
        ELSE st

\* Body of the for loop, lines 232-254, for one line of the chunk.
process_line(raw, st0) ==
    LET st == [st0 EXCEPT !.seen = Append(@, raw)] IN
    IF ~startswith_data(raw) THEN st
    ELSE
      LET payload == strip(Tail(raw)) IN
      IF payload = <<DoneTok>> THEN [st EXCEPT !.done = TRUE]
      ELSE IF ~json_loads_ok(payload) THEN on_bad_json(st)
      ELSE IF ~first_choice_ok(payload[1]) THEN raise_payload(st)
      ELSE
        LET ch == payload[1]
            st1 == IF Truthy(ch.content) THEN write(st, delta_event(ch.content))
                   ELSE st
        IN  IF st1.raised THEN st1
            ELSE IF Truthy(ch.finish)
                 THEN [st1 EXCEPT !.final_stop = stop_reason(ch.finish),
                                  !.done = TRUE]
                 ELSE st1

\* Mutant: the break after a finishing line is missing, so the rest of the
\* chunk's lines are processed too.
RECURSIVE for_lines_NoBreak(_, _)
for_lines_NoBreak(ls, st) ==
    IF ls = <<>> THEN st
    ELSE LET st1 == process_line(Head(ls), st) IN
         IF st1.raised THEN st1 ELSE for_lines_NoBreak(Tail(ls), st1)

\* Mutant: a write that raises is swallowed and the loop goes on with the
\* next line.
RECURSIVE for_lines_IgnoreRaise(_, _)
for_lines_IgnoreRaise(ls, st) ==
    IF ls = <<>> THEN st
    ELSE LET st1 == process_line(Head(ls), st) IN
         IF st1.done THEN st1 ELSE for_lines_IgnoreRaise(Tail(ls), st1)

\* The for loop of lines 231-254: a line that sets done is followed by a
\* break (lines 238, 254), and a write that raises leaves the loop.
RECURSIVE for_lines(_, _)
for_lines(ls, st) ==
    IF ls = <<>> THEN st
    ELSE LET st1 == process_line(Head(ls), st) IN
         IF st1.done \/ st1.raised THEN st1 ELSE for_lines(Tail(ls), st1)

\* Mutant: content_block_stop is written as soon as a chunk ends, inside
\* the loop, instead of after it.
process_chunk_StopInLoop(chunk, st) ==
    flush(write(for_lines(splitlines(chunk), st), Ev("content_block_stop", "0")))

\* Mutant: the events of a chunk are produced but kept back instead of
\* being written before the next chunk is awaited.
process_chunk_Unwritten(chunk, st) ==
    [flush(for_lines(splitlines(chunk), st)) EXCEPT !.evs = <<>>]

\* One iteration of the async for, lines 228-255.  The transport never
\* yields an empty chunk, and chunk.decode(errors="ignore") changes nothing
\* in a chunk cut at token boundaries: a chunk boundary inside a multi-byte
\* character falls inside a line, which the cut already splits in two.
process_chunk(chunk, st) == flush(for_lines(splitlines(chunk), st))

\* --------------------------------------------------------------- inputs
DataLine(p) == <<Prefix, p>>

\* Text fragments a payload may carry.
Contents == {"a", "b", ""}

\* The lines a backend body of the main specification is made of: text
\* deltas, a finish reason, the sentinel and the blank line that separates
\* two server-sent events.
LineTemplates ==
    {DataLine(Json(c, None)) : c \in Contents}
    \cup {DataLine(Json(None, "length")), DataLine(DoneTok), <<>>}

\* A body: lines, each followed by a terminator, the last one possibly not.
Terminated(ls) == Flatten([i \in 1..Len(ls) |-> Append(ls[i], NL)])

Bodies(templates, maxn) ==
    UNION {
        {Terminated(ls) : ls \in [1..n -> templates]}
        \cup {SubSeq(Terminated(ls), 1, Len(Terminated(ls)) - 1) :
                 ls \in [1..n -> templates]}
        : n \in 0..maxn}

\* Statuses and body texts of a backend that refuses the request.
ErrorStatuses == {401, 500}
ErrorTexts == {"bad key", "overloaded"}

\* ---------------------------------------------------------------- state
VARIABLES
    status,      \* resp.status of the backend response
    body,        \* the backend body (status 200): a sequence of tokens
    text,        \* the backend body text (status not 200)
    pc,          \* position of the handler: post, status, loop, closing, returned
    conn,        \* the backend connection: none, open, released
    pos,         \* number of tokens of body the transport has delivered
    out,         \* events written to the client response, in order
    eof,         \* write_eof() has completed
    final_stop,  \* local final_stop (None before line 224)
    done,        \* local done
    result,      \* what handle_messages returns: none, stream, json500
    failure,     \* the exception that ended the handler: none, connect, transport,
                 \* sink, payload
    lines,       \* the lines the for loop has iterated over, in order
    peer,        \* the locals of the other exchange the process is serving,
                 \* suspended at an await (NoPeer when there is none)
    clock,       \* time.time() in milliseconds
    session      \* self.session has been created

vars == <<status, body, text, pc, conn, pos, out, eof, final_stop, done,
          result, failure, lines, peer, clock, session>>

\* The locals of the running exchange, as one record.
Locals ==
    [status |-> status, body |-> body, text |-> text, pc |-> pc,
     conn |-> conn, pos |-> pos, out |-> out, eof |-> eof,
     final_stop |-> final_stop, done |-> done, result |-> result,
     failure |-> failure, lines |-> lines]

\* The locals of an exchange that handle_messages has just accepted.
InitialLocals(templates, maxn) ==
    LET fresh(s, b, t) ==
          [status |-> s, body |-> b, text |-> t, pc |-> "post",
           conn |-> "none", pos |-> 0, out |-> <<>>, eof |-> FALSE,
           final_stop |-> None, done |-> FALSE, result |-> "none",
           failure |-> "none", lines |-> <<>>]
    IN  {fresh(200, b, "") : b \in Bodies(templates, maxn)}
        \cup {fresh(s, <<>>, t) : s \in ErrorStatuses, t \in ErrorTexts}

\* No other exchange is being served.
NoPeer ==
    [status |-> 0, body |-> <<>>, text |-> "", pc |-> "absent",
     conn |-> "none", pos |-> 0, out |-> <<>>, eof |-> FALSE,
     final_stop |-> None, done |-> FALSE, result |-> "none",
     failure |-> "none", lines |-> <<>>]

InitWith(templates, maxn) ==
    /\ \/ status = 200 /\ body \in Bodies(templates, maxn) /\ text = ""
       \/ status \in ErrorStatuses /\ body = <<>> /\ text \in ErrorTexts
    /\ pc = "post"
    /\ conn = "none"
    /\ pos = 0
    /\ out = <<>>
    /\ eof = FALSE
    /\ final_stop = None
    /\ done = FALSE
    /\ result = "none"
    /\ failure = "none"
    /\ lines = <<>>
    /\ clock = 0
    /\ session = FALSE

Init == InitWith(LineTemplates, MaxLines) /\ peer = NoPeer

\* Finish reasons of the bodies of SpecReasons: the four of the table, one
\* outside it, and the empty string.
Reasons == {"stop", "length", "tool_calls", "function_call", "content_filter", ""}

\* Lines written "data: <payload>", with a blank after the colon.
ReasonTemplates ==
    {<<Prefix, Space, Json("a", None)>>, <<Prefix, Space, DoneTok, Space>>}
    \cup {<<Prefix, Space, Json(None, f)>> : f \in Reasons}

InitReasons == InitWith(ReasonTemplates, MaxReasonLines) /\ peer = NoPeer

\* Lines of the bodies of SpecMalformed: two text deltas, and data: lines
\* whose payload is not JSON, is JSON but no object, or is an object with
\* an empty choices list.
MalformedTemplates ==
    {DataLine(Json("a", None)), DataLine(Json("b", None)), DataLine(Garbage),
     DataLine(JsonValue), DataLine(NoChoices)}

InitMalformed == InitWith(MalformedTemplates, MaxMalformedLines) /\ peer = NoPeer

\* The state of a handler step that may still perform `budget` sink operations.
Step(budget) ==
    [evs |-> <<>>, budget |-> budget, raised |-> FALSE, cause |-> "none",
     final_stop |-> final_stop, done |-> done, seen |-> <<>>]

\* except Exception of handle_messages (lines 145-152): the exception leaves
\* handle_stream_response, the async with releases the backend connection,
\* and handle_messages returns a JSON response with status 500.
Except(cause) ==
    /\ pc' = "returned"
    /\ result' = "json500"
    /\ failure' = cause
    /\ conn' = IF conn = "open" THEN "released" ELSE conn

\* init_session (lines 33-36, called at line 84) has created self.session if
\* it was missing; session.post raises (line 188): no connection to the
\* backend.
PostFails ==
    /\ pc = "post"
    /\ Except("connect")
    /\ UNCHANGED <<status, body, text, pos, out, eof, final_stop, done, lines>>
    /\ session' = TRUE
    /\ UNCHANGED <<peer, clock>>

\* session.post returns the backend response (lines 186-189).
PostOk ==
    /\ pc = "post"
    /\ pc' = "status"
    /\ conn' = "open"
    /\ UNCHANGED <<status, body, text, pos, out, eof, final_stop, done,
                   result, failure, lines>>
    /\ session' = TRUE
    /\ UNCHANGED <<peer, clock>>

\* Mutant: the error event does not carry the upstream body text.
error_event_NoText(t) == Ev("error", "")

\* The error event of line 192.
error_event(t) == Ev("error", t)

\* Non-success status (lines 190-194): one error event, then return.
ErrorStatus ==
    /\ pc = "status"
    /\ status # 200
    /\ \/ \* resp.text() raises
          /\ Except("transport")
          /\ UNCHANGED out
       \/ \E b \in 0..1 :
            LET st == write(Step(b), error_event(text)) IN
            /\ out' = out \o st.evs
            /\ IF st.raised THEN Except("sink")
               ELSE /\ pc' = "returned"
                    /\ result' = "stream"
                    /\ conn' = "released"
                    /\ UNCHANGED failure
    /\ UNCHANGED <<status, body, text, pos, eof, final_stop, done, lines>>
    /\ UNCHANGED <<peer, clock, session>>

\* message_id = f"msg_{int(time.time()*1000)}" of line 199.
message_id == "msg_" \o ToString(clock)

\* Mutant: content_block_start written before message_start.
StartEvents_Swapped ==
    <<Ev("content_block_start", "0"), Ev("message_start", message_id),
      Ev("ping", "ping")>>

\* The three opening events (lines 198-221); message_start carries the
\* message id.
StartEvents ==
    <<Ev("message_start", message_id), Ev("content_block_start", "0"),
      Ev("ping", "ping")>>

\* Mutant: final_stop starts unset instead of at the default.
InitialStop_Unset == None

\* final_stop = "end_turn" of line 224.
InitialStop == "end_turn"

\* Lines 198-226: the Started sequence, drain, final_stop and done set.
SendStart ==
    /\ pc = "status"
    /\ status = 200
    /\ \E b \in 0..4 :
         LET st == flush(write_all(Step(b), StartEvents)) IN
         /\ out' = out \o st.evs
         /\ IF st.raised
            THEN Except("sink") /\ UNCHANGED <<final_stop, done>>
            ELSE /\ pc' = "loop"
                 /\ final_stop' = InitialStop
                 /\ done' = FALSE
                 /\ UNCHANGED <<conn, result, failure>>
    /\ UNCHANGED <<status, body, text, pos, eof, lines>>
    /\ UNCHANGED <<peer, clock, session>>

\* The transport delivers the next n tokens as one chunk (lines 227-257).
ReadChunk ==
    /\ pc = "loop"
    /\ pos < Len(body)
    /\ \E n \in 1..(Len(body) - pos) :
         LET chunk == SubSeq(body, pos + 1, pos + n) IN
         \E b \in 0..(Len(splitlines(chunk)) + 1) :
           LET st == process_chunk(chunk, Step(b)) IN
           /\ pos' = pos + n
           /\ out' = out \o st.evs
           /\ lines' = lines \o st.seen
           /\ IF st.raised
              THEN Except(st.cause) /\ UNCHANGED <<final_stop, done>>
              ELSE /\ final_stop' = st.final_stop
                   /\ done' = st.done
                   /\ pc' = IF st.done THEN "closing" ELSE "loop"
                   /\ UNCHANGED <<conn, result, failure>>
    /\ UNCHANGED <<status, body, text, eof>>
    /\ UNCHANGED <<peer, clock, session>>

\* The transport ends (line 227): the loop is left.
ReadEOF ==
    /\ pc = "loop"
    /\ pos = Len(body)
    /\ pc' = "closing"
    /\ UNCHANGED <<status, body, text, conn, pos, out, eof, final_stop, done,
                   result, failure, lines>>
    /\ UNCHANGED <<peer, clock, session>>

\* The transport raises while the next chunk is awaited (line 227).
TransportError ==
    /\ pc = "loop"
    /\ Except("transport")
    /\ UNCHANGED <<status, body, text, pos, out, eof, final_stop, done, lines>>
    /\ UNCHANGED <<peer, clock, session>>

\* Mutant: message_stop written before message_delta.
CloseEvents_StopFirst(stop) ==
    <<Ev("content_block_stop", "0"), Ev("message_stop", "{}"),
      Ev("message_delta", stop)>>

\* The closing events (lines 260-262).
CloseEvents(stop) ==
    <<Ev("content_block_stop", "0"), Ev("message_delta", stop),
      Ev("message_stop", "{}")>>

\* Lines 259-265: the closing sequence, write_eof, return.
Close ==
    /\ pc = "closing"
    /\ \E b \in 0..4 :
         LET st == flush(write_all(Step(b), CloseEvents(final_stop))) IN
         /\ out' = out \o st.evs
         /\ IF st.raised
            THEN Except("sink") /\ UNCHANGED eof
            ELSE /\ eof' = TRUE
                 /\ pc' = "returned"
                 /\ result' = "stream"
                 /\ conn' = "released"
                 /\ UNCHANGED failure
    /\ UNCHANGED <<status, body, text, pos, final_stop, done, lines>>
    /\ UNCHANGED <<peer, clock, session>>

Next ==
    \/ PostFails
    \/ PostOk
    \/ ErrorStatus
    \/ SendStart
    \/ ReadChunk
    \/ ReadEOF
    \/ TransportError
    \/ Close

Spec == Init /\ [][Next]_vars

\* The same handler on bodies that carry every finish reason.
SpecReasons == InitReasons /\ [][Next]_vars

\* The same handler on bodies with malformed payloads.
SpecMalformed == InitMalformed /\ [][Next]_vars

\* Lines of the bodies of SpecNonData: a data: line with the fragment b,
\* and lines that do not begin with data: (blank, comment, event field,
\* prefix in upper case, prefix after a blank), two of which carry a
\* payload with the fragment a and a finish reason.
NonDataTemplates ==
    {DataLine(Json("b", None)), <<>>, <<Comment>>, <<EventField>>,
     <<UpperPrefix, Json("a", "length")>>,
     <<Space, Prefix, Json("a", "length")>>}

InitNonData == InitWith(NonDataTemplates, MaxNonDataLines) /\ peer = NoPeer

\* The same handler on bodies with lines that are not data: lines.
SpecNonData == InitNonData /\ [][Next]_vars

\* Lines of the bodies of SpecBoth: payloads with a fragment and a finish
\* reason together, and a payload with a fragment alone.
BothTemplates ==
    {DataLine(Json("a", "length")), DataLine(Json("b", "stop")),
     DataLine(Json("b", None))}

InitBoth == InitWith(BothTemplates, MaxBothLines) /\ peer = NoPeer

\* The same handler on bodies whose finishing payload carries a fragment.
SpecBoth == InitBoth /\ [][Next]_vars

\* ------------------------------------------------------ two exchanges
\* Lines of the bodies of SpecTwo: a payload with a text delta and a finish
\* reason.
TwoTemplates == {DataLine(Json("a", "length"))}

\* Two requests accepted by the same process, each with its own backend
\* response; neither has posted yet.
InitTwo ==
    /\ InitWith(TwoTemplates, MaxTwoLines)
    /\ peer \in InitialLocals(TwoTemplates, MaxTwoLines)

\* Mutant: final_stop is kept in one place shared by the exchanges, so the
\* exchange that resumes finds the value the other one left.
Switch_SharedStop ==
    /\ peer.pc # "returned"
    /\ status' = peer.status
    /\ body' = peer.body
    /\ text' = peer.text
    /\ pc' = peer.pc
    /\ conn' = peer.conn
    /\ pos' = peer.pos
    /\ out' = peer.out
    /\ eof' = peer.eof
    /\ done' = peer.done
    /\ result' = peer.result
    /\ failure' = peer.failure
    /\ lines' = peer.lines
    /\ peer' = Locals
    /\ UNCHANGED <<final_stop, clock, session>>

\* The running handler is suspended at an await and the event loop resumes
\* the other one.  Everything handle_stream_response works on is a local
\* of the coroutine (response, resp, message_id, final_stop, done, chunk,
\* lines 175-257), so each exchange finds its locals as it left them;
\* self.session and the clock are the process's.  A handler that has
\* returned is not resumed.
Switch ==
    /\ peer.pc # "returned"
    /\ status' = peer.status
    /\ body' = peer.body
    /\ text' = peer.text
    /\ pc' = peer.pc
    /\ conn' = peer.conn
    /\ pos' = peer.pos
    /\ out' = peer.out
    /\ eof' = peer.eof
    /\ final_stop' = peer.final_stop
    /\ done' = peer.done
    /\ result' = peer.result
    /\ failure' = peer.failure
    /\ lines' = peer.lines
    /\ peer' = Locals
    /\ UNCHANGED <<clock, session>>

\* A millisecond passes.  The clock is read at line 199 only, so its value
\* is followed while an exchange has yet to start its stream.
Tick ==
    /\ clock < MaxClock
    /\ pc \in {"post", "status"} \/ peer.pc \in {"post", "status"}
    /\ clock' = clock + 1
    /\ UNCHANGED <<status, body, text, pc, conn, pos, out, eof, final_stop,
                   done, result, failure, lines, peer, session>>

NextTwo ==
    \/ Next
    \/ Switch
    \/ Tick

\* Two exchanges served concurrently by one process.
SpecTwo == InitTwo /\ [][NextTwo]_vars

\* ================================================================ claims
\* Positions of the events of one type in the client output.
Idx(type) == {i \in 1..Len(out) : out[i].type = type}

Has(type) == Idx(type) # {}

\* The handler ran to its return statement with no exception.
ReturnedNormally == pc = "returned" /\ failure = "none"

\* C1: with a success status the first three events written to the client
\* are message_start, content_block_start and ping, in that order, and all
\* three are written before the transport has delivered any chunk.
C1_StartedBeforeAnyChunk ==
    status = 200 =>
        /\ Len(out) >= 1 => out[1].type = "message_start"
        /\ Len(out) >= 2 => out[2] = Ev("content_block_start", "0")
        /\ Len(out) >= 3 => out[3].type = "ping"
        /\ (pos > 0 \/ lines # <<>> \/ pc \in {"loop", "closing"}) => Len(out) >= 3

C1_Witness ==
    /\ status = 200
    /\ pos > 0
    /\ Len(out) >= 4
    /\ out[4].type = "content_block_delta"

\* C2: an exchange that reached Started, met a finishing condition (a
\* finish-reason payload, the [DONE] sentinel or the end of the transport)
\* and whose sink stayed writable has written content_block_stop,
\* message_delta, message_stop exactly once each, in that order, as its
\* last three events, after every content_block_delta, and then signalled
\* end-of-output; at no time is a closing event written twice or out of order.
C2_ClosingOnceInOrder ==
    /\ \A t \in {"content_block_stop", "message_delta", "message_stop"} :
          Cardinality(Idx(t)) <= 1
    /\ \A i \in Idx("content_block_stop") :
          /\ \A j \in Idx("content_block_delta") : j < i
          /\ \A j \in Idx("message_delta") : j = i + 1
          /\ i >= Len(out) - 2
    /\ \A i \in Idx("message_delta") : i - 1 \in Idx("content_block_stop")
    /\ \A i \in Idx("message_stop") :
          i = Len(out) /\ i - 1 \in Idx("message_delta")
    /\ eof => Has("message_stop")
    /\ (status = 200 /\ ReturnedNormally) =>
          /\ eof
          /\ Len(out) >= 6
          /\ out[Len(out) - 2].type = "content_block_stop"
          /\ out[Len(out) - 1] = Ev("message_delta", final_stop)
          /\ out[Len(out)].type = "message_stop"

C2_Witness ==
    /\ ReturnedNormally
    /\ eof
    /\ done
    /\ final_stop = "max_tokens"
    /\ Cardinality(Idx("content_block_delta")) = 2

\* C3: no content_block_delta is written before content_block_start or
\* after content_block_stop.
C3_DeltaInsideBlock ==
    \A i \in Idx("content_block_delta") :
        /\ \E j \in Idx("content_block_start") : j < i
        /\ \A k \in Idx("content_block_stop") : i < k

C3_Witness ==
    /\ Has("content_block_delta")
    /\ Has("content_block_stop")
    /\ Has("content_block_start")

\* ------------------------------------------------ what a line carries
\* The line is a data: line whose payload is the text of a JSON object.
IsPayload(raw) ==
    /\ raw # <<>>
    /\ raw[1].t = "data:"
    /\ raw[Len(raw)].t = "json"
    /\ \A i \in 2..(Len(raw) - 1) : raw[i].t = "sp"

\* The line is a data: line whose payload is the [DONE] sentinel.
IsSentinel(raw) ==
    /\ raw # <<>>
    /\ raw[1].t = "data:"
    /\ raw[Len(raw)].t = "[DONE]"
    /\ \A i \in 2..(Len(raw) - 1) : raw[i].t = "sp"

\* The line carries a finish reason that is a non-empty string.
HasReason(raw) == IsPayload(raw) /\ raw[Len(raw)].finish \notin {None, ""}

\* The line is a finishing condition.
IsFinishing(raw) == IsSentinel(raw) \/ HasReason(raw)

\* The texts of the content_block_delta events written, in order.
DeltaTexts ==
    LET d == SelectSeq(out, LAMBDA e : e.type = "content_block_delta")
    IN  [i \in 1..Len(d) |-> d[i].data]

\* The text fragments of the payloads processed, in arrival order.
Fragments ==
    LET d == SelectSeq(lines,
                 LAMBDA r : IsPayload(r) /\ r[Len(r)].content # None)
    IN  [i \in 1..Len(d) |-> d[i][Len(d[i])].content]

\* The same, without the payloads whose fragment is the empty string.
NonEmptyFragments == SelectSeq(Fragments, LAMBDA c : c # "")

\* One reading of the whole body as a single chunk on a writable sink.
OneChunk ==
    process_chunk(body,
        [evs |-> <<>>, budget |-> Len(body) + 1, raised |-> FALSE,
         cause |-> "none", final_stop |-> "end_turn", done |-> FALSE,
         seen |-> <<>>])

\* The lines of ls that are not blank.
NonBlank(ls) == SelectSeq(ls, LAMBDA r : r # <<>>)

\* C4 (as claimed): however the body is cut into chunks, the loop iterates
\* over the same non-blank lines, writes the same deltas and records the
\* same stop reason as when the body arrives as a single chunk; a line that
\* spans two chunks is reassembled, not lost and not processed as two lines.
C4_ChunkBoundaryIndependence ==
    pc = "closing" =>
        /\ NonBlank(lines) = NonBlank(OneChunk.seen)
        /\ SubSeq(out, 4, Len(out)) = OneChunk.evs
        /\ final_stop = OneChunk.final_stop

\* C5 (as claimed): every payload processed that carries a text fragment,
\* the empty string included, has exactly one content_block_delta with that
\* fragment, in arrival order.
C5_EveryFragmentOneDelta ==
    failure # "sink" => DeltaTexts = Fragments

\* C5 (amended): every payload processed that carries a non-empty text
\* fragment has exactly one content_block_delta with exactly that
\* fragment, the deltas are in the arrival order of their payloads, and a
\* payload whose fragment is the empty string has no delta.
C5_NonEmptyFragmentOneDelta ==
    failure # "sink" => DeltaTexts = NonEmptyFragments

C5_Witness ==
    /\ failure = "none"
    /\ Fragments = <<"a", "", "b">>
    /\ DeltaTexts = <<"a", "b">>

\* C6: once a finishing line (a finish reason or [DONE]) has been
\* processed, it stays the last line the loop has processed: no later line
\* of the same chunk or of a later chunk is processed, the deltas are those
\* of the payloads before it, and the loop has been left.
C6_FirstFinishWins ==
    done =>
        /\ lines # <<>>
        /\ IsFinishing(lines[Len(lines)])
        /\ \A i \in 1..(Len(lines) - 1) : ~IsFinishing(lines[i])
        /\ DeltaTexts = NonEmptyFragments
        /\ IsSentinel(lines[Len(lines)]) => final_stop = "end_turn"
        /\ pc \in {"closing", "returned"}

\* The backend has sent, after the finishing line, a line in the same chunk
\* and more data that is never read.
C6_Witness ==
    /\ done
    /\ ReturnedNormally
    /\ pos < Len(body)
    /\ Len(splitlines(SubSeq(body, 1, pos))) > Len(lines)
    /\ \E i \in (pos + 1)..Len(body) : body[i].t = "json" /\ body[i].content = "a"

\* The reason-code table as the specification states it.
ClaimedStop(f) ==
    CASE f = "stop" -> "end_turn"
      [] f = "length" -> "max_tokens"
      [] f = "tool_calls" -> "tool_use"
      [] f = "function_call" -> "tool_use"
      [] OTHER -> "end_turn"

\* C7: the stop_reason of message_delta is one of end_turn, max_tokens,
\* tool_use, and when the stream finished on a finish-reason payload it is
\* the image of that payload's finish_reason under the table stop ->
\* end_turn, length -> max_tokens, tool_calls -> tool_use, function_call ->
\* tool_use, any other string -> end_turn.
C7_StopReasonTable ==
    \A i \in Idx("message_delta") :
        /\ out[i].data \in {"end_turn", "max_tokens", "tool_use"}
        /\ (lines # <<>> /\ HasReason(lines[Len(lines)])) =>
              out[i].data = ClaimedStop(lines[Len(lines)][Len(lines[Len(lines)])].finish)

C7_Witness ==
    /\ Has("message_delta")
    /\ lines # <<>>
    /\ HasReason(lines[Len(lines)])
    /\ lines[Len(lines)][Len(lines[Len(lines)])].finish = "content_filter"
    /\ \E j \in 1..(Len(lines) - 1) :
          IsPayload(lines[j]) /\ lines[j][Len(lines[j])].finish = ""

\* C8: on a non-success status the client output is the single error event
\* carrying the upstream body text: no other event is written, and no body
\* chunk is read or transcoded.
C8_ErrorStatusSingleEvent ==
    status # 200 =>
        /\ out \in {<<>>, <<[type |-> "error", data |-> text]>>}
        /\ pos = 0
        /\ lines = <<>>
        /\ ~eof
        /\ ReturnedNormally => out = <<[type |-> "error", data |-> text]>>

C8_Witness ==
    /\ status = 401
    /\ text = "bad key"
    /\ ReturnedNormally
    /\ Len(out) = 1

\* C9 (as claimed): when the transport raises after message_start was
\* written, the client output still ends with content_block_stop,
\* message_delta carrying the stop reason recorded so far, message_stop.
C9_ClosedAfterTransportError ==
    (pc = "returned" /\ failure = "transport" /\ Has("message_start")) =>
        /\ Len(out) >= 6
        /\ out[Len(out) - 2].type = "content_block_stop"
        /\ out[Len(out) - 1] = [type |-> "message_delta", data |-> final_stop]
        /\ out[Len(out)].type = "message_stop"

\* C10 (as claimed): when the transport fails before message_start was
\* written, the client output is exactly one error event.
C10_EarlyFailureSingleErrorEvent ==
    (pc = "returned" /\ failure \in {"connect", "transport"}
        /\ ~Has("message_start")) =>
        /\ Len(out) = 1
        /\ out[1].type = "error"

\* ------------------------------------------------- malformed payloads
\* The line is a data: line whose payload is of kind t.
IsDataOf(raw, kinds) ==
    /\ raw # <<>>
    /\ raw[1].t = "data:"
    /\ raw[Len(raw)].t \in kinds
    /\ \A i \in 2..(Len(raw) - 1) : raw[i].t = "sp"

\* The payload is not valid JSON.
IsInvalidJson(raw) == IsDataOf(raw, {"garbage"})

\* The payload is not a well-shaped payload object.
IsMalformed(raw) == IsDataOf(raw, {"garbage", "json_value", "json_nochoices"})

\* C11 (as claimed): a data: line whose payload is invalid JSON, a JSON
\* value that is no object, or an object with an empty choices list raises
\* no error, does not finish the stream and writes no event.
C11_MalformedDiscarded ==
    /\ failure # "payload"
    /\ done => (lines # <<>> /\ ~IsMalformed(lines[Len(lines)]))
    /\ failure # "sink" => DeltaTexts = NonEmptyFragments

\* C12: a data: line whose payload is not valid JSON raises no error, does
\* not finish the stream and writes no event: the loop goes on to the end
\* of the body, and the deltas written are those of the valid payloads
\* around it, in arrival order.
C12_InvalidJsonSkipped ==
    /\ failure = "payload" => (lines # <<>> /\ ~IsInvalidJson(lines[Len(lines)]))
    /\ done => (lines # <<>> /\ ~IsInvalidJson(lines[Len(lines)]))
    /\ failure # "sink" => DeltaTexts = NonEmptyFragments
    /\ (pc = "closing" /\ ~done) => pos = Len(body)
    /\ (\E i \in 1..Len(lines) : IsInvalidJson(lines[i])) =>
          Len(out) <= 3 + Len(NonEmptyFragments) + 3

C12_Witness ==
    /\ ReturnedNormally
    /\ lines = <<DataLine(Json("a", None)), DataLine(Garbage),
                 DataLine(Json("b", None))>>
    /\ out = <<Ev("message_start", "msg_0"), Ev("content_block_start", "0"),
               Ev("ping", "ping"),
               Ev("content_block_delta", "a"), Ev("content_block_delta", "b"),
               Ev("content_block_stop", "0"), Ev("message_delta", "end_turn"),
               Ev("message_stop", "{}")>>

\* C13: a step in which a write to the sink fails is the last step of the
\* exchange: it starts from an exchange that had not failed, writes nothing
\* after the failed write (the output grows only by the events written
\* before it, and the line whose delta failed is the last line processed),
\* leaves the handler with the backend connection released and without
\* end-of-output, and, unless the closing step itself failed, leaves no
\* closing event in the output.
C13_SinkFailureAborts ==
    [][failure' = "sink" =>
          /\ failure = "none"
          /\ pc' = "returned"
          /\ conn' = "released"
          /\ ~eof'
          /\ Len(out') >= Len(out)
          /\ SubSeq(out', 1, Len(out)) = out
          /\ pos' >= pos
          /\ pc = "loop" =>
                /\ Len(DeltaTexts') \in
                      {Len(NonEmptyFragments'), Len(NonEmptyFragments') - 1}
                /\ Len(DeltaTexts') < Len(NonEmptyFragments') =>
                      /\ lines' # <<>>
                      /\ IsPayload(lines'[Len(lines')])
                      /\ lines'[Len(lines')][Len(lines'[Len(lines')])].content
                            = NonEmptyFragments'[Len(NonEmptyFragments')]
          /\ pc # "closing" => ~Has("content_block_stop")'
          /\ pc = "closing" => Len(out') - Len(out) <= 3
      ]_vars

\* The write of a delta failed in the middle of a chunk, with body unread.
C13_Witness ==
    /\ failure = "sink"
    /\ conn = "released"
    /\ Has("content_block_delta")
    /\ Len(DeltaTexts) < Len(NonEmptyFragments)
    /\ ~Has("content_block_stop")
    /\ Len(splitlines(SubSeq(body, 1, pos))) > Len(lines)
    /\ pos < Len(body)

\* C14: when no finish-reason payload was processed, whether the loop was
\* left on the [DONE] sentinel or at the end of the transport, message_delta
\* carries stop_reason end_turn.
C14_DefaultEndTurn ==
    \A i \in Idx("message_delta") :
        (\A j \in 1..Len(lines) : ~HasReason(lines[j])) =>
            out[i] = [type |-> "message_delta", data |-> "end_turn"]

\* The loop was left on the sentinel, after a delta, with no finish reason.
C14_Witness ==
    /\ ReturnedNormally
    /\ done
    /\ IsSentinel(lines[Len(lines)])
    /\ Has("content_block_delta")
    /\ out[Len(out) - 1] = [type |-> "message_delta", data |-> "end_turn"]

\* ------------------------------------------------------------ Scenario A
\* The body is text-delta payloads f1..fn followed by one finish-reason
\* payload, and every line of it was processed whole.
ScenarioA ==
    LET bl == splitlines(body) IN
    /\ bl # <<>>
    /\ \A i \in 1..(Len(bl) - 1) :
          /\ IsPayload(bl[i])
          /\ bl[i][Len(bl[i])].content # None
          /\ bl[i][Len(bl[i])].finish = None
    /\ HasReason(bl[Len(bl)])
    /\ bl[Len(bl)][Len(bl[Len(bl)])].content = None
    /\ NonBlank(lines) = bl
    /\ ReturnedNormally

\* The fragments f1..fn of the body, and its finish reason r.
BodyFragments ==
    LET bl == splitlines(body) IN
    [i \in 1..(Len(bl) - 1) |-> bl[i][Len(bl[i])].content]

BodyReason ==
    LET bl == splitlines(body) IN bl[Len(bl)][Len(bl[Len(bl)])].finish

\* The events that follow message_start when the deltas are those of fs.
ScenarioOutput(fs) ==
    <<[type |-> "content_block_start", data |-> "0"],
      [type |-> "ping", data |-> "ping"]>>
    \o [i \in 1..Len(fs) |-> [type |-> "content_block_delta", data |-> fs[i]]]
    \o <<[type |-> "content_block_stop", data |-> "0"],
         [type |-> "message_delta", data |-> ClaimedStop(BodyReason)],
         [type |-> "message_stop", data |-> "{}"]>>

\* C15 (as claimed): the complete output is message_start,
\* content_block_start, ping, one content_block_delta for each of f1..fn,
\* content_block_stop, message_delta(map(r)), message_stop.
C15_ScenarioExactOutput ==
    ScenarioA =>
        /\ out[1].type = "message_start"
        /\ Tail(out) = ScenarioOutput(BodyFragments)

\* C15 (amended): the same, with one content_block_delta for each
\* non-empty fragment among f1..fn, in order, and none for an empty one.
C15_ScenarioNonEmptyOutput ==
    ScenarioA =>
        /\ out[1].type = "message_start"
        /\ Tail(out) = ScenarioOutput(SelectSeq(BodyFragments, LAMBDA c : c # ""))

C15_Witness ==
    /\ ScenarioA
    /\ BodyFragments = <<"a", "b">>
    /\ Len(out) = 8

\* ------------------------------------------------------------- framing
EventNames ==
    {"message_start", "content_block_start", "ping", "content_block_delta",
     "content_block_stop", "message_delta", "message_stop", "error"}

\* The text parses as a JSON value: any output of json.dumps does, and so
\* does {}; the bare word ping does not.
IsJsonText(t) == t \in {"json.dumps", "{}"}

\* C16 (as claimed): every event written has one of the eight event names
\* and a data part that is a JSON value, ping and message_stop included.
C16_FramesCarryJson ==
    \A i \in 1..Len(out) :
        /\ out[i].type \in EventNames
        /\ IsJsonText(frame_data(out[i]))

\* --------------------------------------------------------- backpressure
\* C19: whenever the next chunk is requested from the backend, every event
\* derived from the chunks already delivered has been written: the output
\* holds the three opening events and one delta for each non-empty fragment
\* of the lines iterated so far, in order, and nothing is held back.
C19_WrittenBeforeNextPull ==
    [][(pc = "loop" /\ pos' > pos) =>
          /\ DeltaTexts = NonEmptyFragments
          /\ Len(out) = 3 + Len(NonEmptyFragments)]_vars

\* A second chunk is about to be requested after a first one whose delta
\* has been written.
C19_Witness ==
    /\ pc = "loop"
    /\ pos > 0
    /\ pos < Len(body)
    /\ DeltaTexts = <<"a">>

\* ------------------------------------------------------ trailing bytes
\* The part of the body up to and including its last line terminator.
RECURSIVE TerminatedPart(_)
TerminatedPart(b) ==
    IF b = <<>> \/ b[Len(b)] = NL THEN b
    ELSE TerminatedPart(SubSeq(b, 1, Len(b) - 1))

\* The body ends with bytes that no line terminator follows.
Unterminated == body # TerminatedPart(body)

\* One reading of the terminated part of the body as a single chunk on a
\* writable sink.
WholeLinesOnly ==
    LET b == TerminatedPart(body) IN
    IF b = <<>>
    THEN [evs |-> <<>>, final_stop |-> "end_turn", done |-> FALSE]
    ELSE LET st == process_chunk(b,
                      [evs |-> <<>>, budget |-> Len(b) + 1, raised |-> FALSE,
                       cause |-> "none", final_stop |-> "end_turn",
                       done |-> FALSE, seen |-> <<>>])
         IN  [evs |-> st.evs, final_stop |-> st.final_stop, done |-> st.done]

\* C20 (as claimed): when the transport ends after an unterminated final
\* line (and no line was cut in two by a chunk boundary), the deltas
\* written, the stop reason recorded and the done flag are those of the
\* terminated lines alone: the trailing bytes are not processed as a line.
C20_TrailingBytesDiscarded ==
    (/\ pc = "closing"
     /\ Unterminated
     /\ NonBlank(lines) = NonBlank(OneChunk.seen))
    => /\ SubSeq(out, 4, Len(out)) = WholeLinesOnly.evs
       /\ final_stop = WholeLinesOnly.final_stop
       /\ done = WholeLinesOnly.done

\* ----------------------------------------------------------- isolation
\* The fragments that are not the empty string, among the lines ls.
NonEmptyFragmentsOf(ls) ==
    LET d == SelectSeq(ls, LAMBDA r : /\ IsPayload(r)
                                      /\ r[Len(r)].content \notin {None, ""})
    IN  [i \in 1..Len(d) |-> d[i][Len(d[i])].content]

\* The stop reason the lines ls lead to.
RecordedStop(ls) ==
    IF ls # <<>> /\ HasReason(ls[Len(ls)])
    THEN ClaimedStop(ls[Len(ls)][Len(ls[Len(ls)])].finish)
    ELSE "end_turn"

\* s is an initial part of t.
IsPrefix(s, t) == Len(s) <= Len(t) /\ s = SubSeq(t, 1, Len(s))

\* What the exchange with locals x emits when it runs alone, given the
\* status and text of its backend response, the lines its loop has iterated
\* over, where it stands and how its sink or backend failed: the events
\* after message_start (whose id is the time of its start).
AloneOutput(x) ==
    LET ds == [i \in 1..Len(NonEmptyFragmentsOf(x.lines)) |->
                 [type |-> "content_block_delta",
                  data |-> NonEmptyFragmentsOf(x.lines)[i]]]
        started == <<[type |-> "content_block_start", data |-> "0"],
                     [type |-> "ping", data |-> "ping"]>> \o ds
        closed == started
                  \o <<[type |-> "content_block_stop", data |-> "0"],
                       [type |-> "message_delta", data |-> RecordedStop(x.lines)],
                       [type |-> "message_stop", data |-> "{}"]>>
    IN  IF x.pc \in {"post", "status"} \/ x.failure = "connect"
        THEN x.out = <<>>
        ELSE IF x.status # 200
        THEN x.out = IF x.failure = "none"
                     THEN <<[type |-> "error", data |-> x.text]>> ELSE <<>>
        ELSE IF x.failure = "sink"
        THEN \/ x.out = <<>>
             \/ /\ x.out[1].type = "message_start"
                /\ IsPrefix(Tail(x.out), closed)
        ELSE /\ x.out # <<>>
             /\ x.out[1].type = "message_start"
             /\ Tail(x.out) = IF x.pc = "returned" /\ x.failure = "none"
                              THEN closed ELSE started

\* C17: in every interleaving of two exchanges, each one's output is what
\* it emits running alone on its own backend input and sink, whatever the
\* other one does, a sink failure or a backend error of the other included.
C17_ExchangesIsolated == AloneOutput(Locals) /\ AloneOutput(peer)

\* One exchange started its stream first and is still in its loop, a chunk
\* read, while the other, started a millisecond later, has written a delta
\* and has then been ended by a sink failure.
C17_Witness ==
    /\ pc = "loop"
    /\ pos > 0
    /\ out[1].data = "msg_0"
    /\ peer.failure = "sink"
    /\ Len(peer.out) = 4
    /\ peer.out[1].data = "msg_1"
    /\ peer.out[4] = [type |-> "content_block_delta", data |-> "a"]

\* ---------------------------------------------------------- message ids
\* C18 (as claimed): two exchanges served by the same process carry
\* different message ids in their message_start events.
C18_MessageIdsUnique ==
    (/\ out # <<>>
     /\ peer.out # <<>>
     /\ out[1].type = "message_start"
     /\ peer.out[1].type = "message_start")
    => out[1].data # peer.out[1].data

\* ------------------------------------------------------- non-data lines
\* The logical lines of the body that begin with data:.
DataLogicalLines ==
    SelectSeq(splitlines(body), LAMBDA r : r # <<>> /\ r[1].t = "data:")

\* C21 (as claimed): a logical line that does not begin with data: has no
\* effect: every delta written carries the fragment of a logical line that
\* begins with data:, a stop reason other than the default is recorded only
\* if such a line carries a finish reason, and done is set only if such a
\* line is a finishing condition.
C21_NonDataLinesDropped ==
    /\ \A i \in Idx("content_block_delta") :
         \E j \in 1..Len(DataLogicalLines) :
            /\ IsPayload(DataLogicalLines[j])
            /\ DataLogicalLines[j][Len(DataLogicalLines[j])].content = out[i].data
    /\ (pc \in {"loop", "closing"} /\ final_stop # "end_turn") =>
         \E j \in 1..Len(DataLogicalLines) : HasReason(DataLogicalLines[j])
    /\ done =>
         \E j \in 1..Len(DataLogicalLines) : IsFinishing(DataLogicalLines[j])

\* ------------------------------------- fragment and finish reason together
\* The line is a payload with a non-empty fragment and a finish reason.
CarriesBoth(raw) == HasReason(raw) /\ raw[Len(raw)].content \notin {None, ""}

\* C22: when the loop has processed a payload that carries a non-empty
\* fragment c and a finish reason f, the delta for c is the last event
\* written before the closing sequence, which follows it with the stop
\* reason of f; no fragment is lost and none comes after content_block_stop.
C22_FragmentBeforeClosing ==
    (/\ lines # <<>>
     /\ CarriesBoth(lines[Len(lines)])
     /\ failure = "none")
    => LET p == lines[Len(lines)][Len(lines[Len(lines)])] IN
       /\ pc \in {"closing", "returned"}
       /\ DeltaTexts = NonEmptyFragments
       /\ pc = "closing" =>
            /\ out[Len(out)] = [type |-> "content_block_delta", data |-> p.content]
            /\ final_stop = ClaimedStop(p.finish)
       /\ pc = "returned" =>
            SubSeq(out, Len(out) - 3, Len(out))
              = <<[type |-> "content_block_delta", data |-> p.content],
                  [type |-> "content_block_stop", data |-> "0"],
                  [type |-> "message_delta", data |-> ClaimedStop(p.finish)],
                  [type |-> "message_stop", data |-> "{}"]>>

\* A stream of the fragment b and then a payload with the fragment a and
\* the finish reason length has been closed.
C22_Witness ==
    /\ ReturnedNormally
    /\ Len(lines) = 2
    /\ CarriesBoth(lines[2])
    /\ DeltaTexts = <<"b", "a">>
    /\ out[Len(out) - 1] = [type |-> "message_delta", data |-> "max_tokens"]

\* ------------------------------------------------ the two response paths
\* The finish_reason the stream ended on: that of the last payload the
\* loop processed, None when the stream ended without one.
StreamFinish ==
    IF lines # <<>> /\ IsPayload(lines[Len(lines)])
    THEN lines[Len(lines)][Len(lines[Len(lines)])].finish
    ELSE None

\* C23 (as claimed): the stop_reason the streaming path reports in
\* message_delta is the one the non-streaming translation reports for the
\* same finish_reason, whatever it is (absent included).
C23_PathsAgreeOnStopReason ==
    \A i \in Idx("message_delta") :
        out[i].data = normal_stop_reason(StreamFinish)

====
